---------------------------- MODULE Spec2Model ----------------------------
(***************************************************************************)
(* A model of the brainfuck interpreter of src/main.cpp: the loader        *)
(* (parse_insts, to_inst), the instruction cursor (next_inst, prev_inst),  *)
(* the fetch-dispatch loop of run() and the two bracket scans (skip_loop,  *)
(* restart_loop).                                                          *)
(*                                                                         *)
(* Positions.  m_insts is a 1-based sequence here; the iterator            *)
(* m_insts_iter is the integer p with                                      *)
(*     p = 0            m_insts.begin() - 1   (one before the first entry) *)
(*     p = 1..Len       the entry m_insts[p]                               *)
(*     p = Len + 1      m_insts.end()                                      *)
(* m_ptr is the offset m_ptr - m_tape, so the tape is 0..BF_PTR_SIZE-1.    *)
(*                                                                         *)
(* The tape is kept sparse: a function from the cells that hold a non-zero *)
(* byte to that byte; every other cell of 0..BF_PTR_SIZE-1 holds 0 (the    *)
(* std::fill of the constructor).                                          *)
(*                                                                         *)
(* Undefined behaviour.  Dereferencing the iterator outside 1..Len and     *)
(* dereferencing m_ptr outside the tape are undefined.  A read yields any  *)
(* value or faults; a write lands outside the tape or faults.  A fault is  *)
(* the state pc = "ub", in which nothing more is known about the process.  *)
(* The storage at m_insts.end() is not written by the program, so what a   *)
(* read of it yields is indeterminate but the same at every read: beyond   *)
(* holds it once it has been read.                                         *)
(***************************************************************************)
EXTENDS Integers, Sequences, FiniteSets, TLC

\* ------------------------------------------------------------- bounds
\* Longest source enumerated exhaustively.
MaxLen == 3
\* Cap of the scan depth counter (int loops), which the code never bounds.
MaxDepth == 6
\* How far outside the tape the model follows m_ptr.
MaxOob == 2
\* Longest output the model follows.
MaxOut == 3

\* ---------------------------------------------------------- constants
BF_PTR_SIZE == 30000
\* Byte is unsigned char: arithmetic modulo 256.
ByteMod == 256

Bytes == 0 .. (ByteMod - 1)

\* The values an out-of-range read of a byte is followed with.
GarbageBytes == {0, 1, 255}

Instructions ==
    {"INCR_PTR", "DECR_PTR", "INCR_BYTE", "DECR_BYTE", "OUT_BYTE",
     "READ_BYTE", "WHILE_BEGIN", "WHILE_END", "COMMENT", "END_OF_PROGRAM"}

\* Source bytes: the eight symbols and one byte that is none of them.
Chars == {">", "<", "+", "-", ".", ",", "[", "]", "x"}

\* ------------------------------------------------------------- loader
\* Mutant of to_inst: the case of '.' is missing.
to_inst_NoOut(c) ==
    CASE c = ">" -> "INCR_PTR"
      [] c = "<" -> "DECR_PTR"
      [] c = "+" -> "INCR_BYTE"
      [] c = "-" -> "DECR_BYTE"
      [] c = "," -> "READ_BYTE"
      [] c = "[" -> "WHILE_BEGIN"
      [] c = "]" -> "WHILE_END"
      [] OTHER   -> "COMMENT"

to_inst(c) ==
    CASE c = ">" -> "INCR_PTR"
      [] c = "<" -> "DECR_PTR"
      [] c = "+" -> "INCR_BYTE"
      [] c = "-" -> "DECR_BYTE"
      [] c = "." -> "OUT_BYTE"
      [] c = "," -> "READ_BYTE"
      [] c = "[" -> "WHILE_BEGIN"
      [] c = "]" -> "WHILE_END"
      [] OTHER   -> "COMMENT"

\* Mutant of parse_insts: the end-of-program marker is not pushed.
parse_insts_NoMarker(code) ==
    IF Len(code) = 0
    THEN [insts |-> << >>, iter |-> 1]
    ELSE [insts |-> [i \in 1 .. (Len(code) + 1) |->
                        IF i <= Len(code) THEN to_inst(code[i]) ELSE "COMMENT"],
          iter  |-> 0]

\* parse_insts: an empty file returns early, leaving m_insts empty and the
\* iterator value-initialised (equal to begin() = end() of the empty vector).
\* Otherwise the vector is resized to n + 1 COMMENT entries, the first n are
\* overwritten by the decoded bytes, END_OF_PROGRAM is pushed behind them and
\* the iterator is set to begin() - 1.
parse_insts(code) ==
    IF Len(code) = 0
    THEN [insts |-> << >>, iter |-> 1]
    ELSE [insts |-> [i \in 1 .. (Len(code) + 1) |->
                        IF i <= Len(code) THEN to_inst(code[i]) ELSE "COMMENT"]
                    \o <<"END_OF_PROGRAM">>,
          iter  |-> 0]

\* ------------------------------------------------- instruction cursor
\* What the storage outside the sequence may hold: any enumerator, or a value
\* that is none.
Indeterminate == Instructions \cup {"INVALID"}

\* The outcomes of dereferencing the iterator at position p, b being what is
\* known of the storage outside the sequence ("unread": nothing yet).
Deref(insts, p, b) ==
    IF p \in 1 .. Len(insts)
    THEN {[iter |-> p, inst |-> insts[p], ok |-> TRUE, beyond |-> b]}
    ELSE {[iter |-> p, inst |-> g, ok |-> TRUE, beyond |-> g] :
             g \in IF b = "unread" THEN Indeterminate ELSE {b}}
         \cup {[iter |-> p, inst |-> "COMMENT", ok |-> FALSE, beyond |-> b]}

\* next_inst: at end() the iterator is dereferenced where it is, otherwise it
\* is advanced first.
NextPos(insts, it) == IF it = Len(insts) + 1 THEN it ELSE it + 1

next_inst(insts, it, b) == Deref(insts, NextPos(insts, it), b)

\* Mutant of PrevPos: the test for begin() is missing.
PrevPosNoClamp(insts, it) == it - 1

\* prev_inst: at begin() the iterator is dereferenced where it is, otherwise
\* it is moved back first.
PrevPos(insts, it) == IF it = 1 THEN it ELSE it - 1

prev_inst(insts, it, b) == Deref(insts, PrevPos(insts, it), b)

\* --------------------------------------------------------------- tape
EmptyTape == [q \in {} |-> 0]

InTape(p) == p \in 0 .. (BF_PTR_SIZE - 1)

Cell(t, p) == IF p \in DOMAIN t THEN t[p] ELSE 0

\* Mutant of SetCell: the store lands on the cell to the right.
SetCellRight(t, p, v) ==
    IF v = 0
    THEN [q \in (DOMAIN t) \ {p + 1} |-> t[q]]
    ELSE [q \in (DOMAIN t) \cup {p + 1} |-> IF q = p + 1 THEN v ELSE t[q]]

SetCell(t, p, v) ==
    IF v = 0
    THEN [q \in (DOMAIN t) \ {p} |-> t[q]]
    ELSE [q \in (DOMAIN t) \cup {p} |-> IF q = p THEN v ELSE t[q]]

\* The outcomes of reading *m_ptr.
ReadCell(t, p) ==
    IF InTape(p)
    THEN {[val |-> Cell(t, p), ok |-> TRUE]}
    ELSE {[val |-> g, ok |-> TRUE] : g \in GarbageBytes}
         \cup {[val |-> 0, ok |-> FALSE]}

\* The outcomes of storing v through m_ptr.
WriteCell(t, p, v) ==
    IF InTape(p)
    THEN {[tape |-> SetCell(t, p, v), ok |-> TRUE]}
    ELSE {[tape |-> t, ok |-> TRUE], [tape |-> t, ok |-> FALSE]}

\* ------------------------------------------------------------ streams
\* operator>> on an unsigned char skips leading whitespace of the C locale.
IsSpace(b) == b \in {9, 10, 11, 12, 13, 32}

RECURSIVE SkipWs(_)
SkipWs(s) == IF s # << >> /\ IsSpace(Head(s)) THEN SkipWs(Tail(s)) ELSE s


\* Mutant of Extract: at the end of the stream the byte 0 is stored.
ExtractZeroAtEnd(rest, fail) ==
    IF fail
    THEN [got |-> TRUE, val |-> 0, rest |-> rest, fail |-> TRUE]
    ELSE IF SkipWs(rest) = << >>
         THEN [got |-> TRUE, val |-> 0, rest |-> << >>, fail |-> TRUE]
         ELSE [got |-> TRUE, val |-> Head(SkipWs(rest)),
               rest |-> Tail(SkipWs(rest)), fail |-> FALSE]

\* The outcome of m_input_stream >> *m_ptr on the stream state (rest, fail):
\* a failed stream stores nothing; otherwise whitespace is skipped and the next
\* byte is stored, or the stream fails at its end and stores nothing.
Extract(rest, fail) ==
    IF fail
    THEN [got |-> FALSE, val |-> 0, rest |-> rest, fail |-> TRUE]
    ELSE IF SkipWs(rest) = << >>
         THEN [got |-> FALSE, val |-> 0, rest |-> << >>, fail |-> TRUE]
         ELSE [got |-> TRUE, val |-> Head(SkipWs(rest)),
               rest |-> Tail(SkipWs(rest)), fail |-> FALSE]

\* ------------------------------------------------------ scan counters
\* Mutant of SkipDepth: loop-starts inside the skipped range are not counted.
SkipDepthFlat(inst, l) == IF inst = "WHILE_END" THEN l - 1 ELSE l

\* skip_loop's update of its counter for one fetched instruction.
SkipDepth(inst, l) ==
    IF inst = "WHILE_BEGIN" THEN l + 1
    ELSE IF inst = "WHILE_END" THEN l - 1
    ELSE l

\* Mutant of RestartDepth: the counting of skip_loop, copied unchanged.
RestartDepthSwapped(inst, l) ==
    IF inst = "WHILE_BEGIN" THEN l + 1
    ELSE IF inst = "WHILE_END" THEN l - 1
    ELSE l

\* Mutant of RestartDepth: loop-ends inside the range are not counted.
RestartDepthFlat(inst, l) == IF inst = "WHILE_BEGIN" THEN l - 1 ELSE l

\* restart_loop's update of its counter for one fetched instruction.
RestartDepth(inst, l) ==
    IF inst = "WHILE_BEGIN" THEN l - 1
    ELSE IF inst = "WHILE_END" THEN l + 1
    ELSE l

\* ----------------------------------------------------- programs, inputs
Rep(c, n) == [i \in 1 .. n |-> c]

ShortPrograms == UNION {[1 .. n -> Chars] : n \in 0 .. MaxLen}

\* ++++++++[>++++++++<-]>+.
ProgA ==
    Rep("+", 8) \o <<"[", ">">> \o Rep("+", 8)
    \o <<"<", "-", "]", ">", "+", ".">>

\* +[>+<-]
ProgOnce == <<"+", "[", ">", "+", "<", "-", "]">>

\* ,[>+<-]
ProgCount == <<",", "[", ">", "+", "<", "-", "]">>

\* [[]]
ProgNest == <<"[", "[", "]", "]">>

\* Well-formed programs with nested and consecutive loops.
NestedPrograms ==
    {ProgNest,
     <<"[", "[", "]", "[", "]", "]", "+">>,
     <<"+", "[", "[", "-", "]", "]", ".">>,
     <<"+", "[", ">", "+", "[", "-", "]", "<", "-", "]">>,
     <<"+", "+", "[", ">", "[", "x", "]", "+", "[", "[", "-", "]", "]", "<",
       "-", "]">>,
     <<"+", "[", "-", "[", "+", "]", "[", "[", "]", "]", "]", "[", "]">>}

\* ,.
ProgEcho == <<",", ".">>

\* , followed by 256 times +, and by 256 times -
ProgInc256 == <<",">> \o Rep("+", ByteMod)

ProgDec256 == <<",">> \o Rep("-", ByteMod)

NamedPrograms == {ProgA, ProgOnce} \cup NestedPrograms

SmallInputs == {<< >>, <<65>>, <<32, 2>>}

ByteInputs == {<<b>> : b \in Bytes}

\* The runs explored: a source file and the bytes waiting on standard input.
Runs ==
    (ShortPrograms \X SmallInputs)
    \cup (NamedPrograms \X {<< >>})
    \cup ({ProgCount, ProgEcho, ProgInc256, ProgDec256} \X ByteInputs)

\* --------------------------------------------------------------- state
VARIABLES
    src,           \* the bytes of the source file
    m_insts,       \* the decoded instruction sequence
    m_insts_iter,  \* the program cursor
    m_inst,        \* the instruction fetched last
    beyond,        \* what the storage at m_insts.end() was read to hold
    m_tape,        \* the tape (non-zero cells)
    m_ptr,         \* the tape cursor
    stdin,         \* history: the bytes the input stream held at the start
    input,         \* bytes not yet consumed from the input stream
    in_fail,       \* the input stream's fail state
    output,        \* bytes written to the output stream
    pc,            \* "run": at the top of run()'s loop; "skip", "restart":
                   \* inside that scan's loop; "done": run() has returned;
                   \* "ub": undefined behaviour has happened
    loops,         \* the running scan's counter
    anchor,        \* history: the position the last scan started from
    ev             \* history: the kind of the last step: "none" (no step
                   \* yet), "top" (a fetch of run()'s loop), "scan" (a pass
                   \* of a scan that goes on), "skipped", "restarted" (the
                   \* pass that ended the scan), "call" (a scan entered
                   \* directly), "fault" (a dereference that faulted)

vars ==
    <<src, m_insts, m_insts_iter, m_inst, beyond, m_tape, m_ptr, stdin, input,
      in_fail, output, pc, loops, anchor, ev>>

\* The state after the constructor.
Init ==
    \E r \in Runs :
        /\ src = r[1]
        /\ stdin = r[2]
        /\ input = r[2]
        /\ m_insts = parse_insts(r[1]).insts
        /\ m_insts_iter = parse_insts(r[1]).iter
        /\ m_inst = "COMMENT"
        /\ beyond = "unread"
        /\ m_tape = EmptyTape
        /\ m_ptr = 0
        /\ in_fail = FALSE
        /\ output = << >>
        /\ pc = "run"
        /\ loops = 0
        /\ anchor = 0
        /\ ev = "none"

\* ------------------------------------------------------------- run()
\* The fetch at the top of run()'s loop returning instruction i.
Fetch(i) ==
    /\ pc = "run"
    /\ \E r \in next_inst(m_insts, m_insts_iter, beyond) :
        /\ r.ok
        /\ r.inst = i
        /\ m_insts_iter' = r.iter
        /\ beyond' = r.beyond
    /\ m_inst' = i
    /\ ev' = "top"

\* The fetch dereferences the iterator outside the sequence and faults, or
\* reads a value that is no enumerator (the switch's std::unreachable()).
FetchFault ==
    /\ pc = "run"
    /\ \E r \in next_inst(m_insts, m_insts_iter, beyond) :
        /\ ~r.ok \/ r.inst = "INVALID"
        /\ m_insts_iter' = r.iter
        /\ beyond' = r.beyond
    /\ pc' = "ub"
    /\ ev' = "fault"
    /\ UNCHANGED <<src, stdin, m_insts, m_inst, m_tape, m_ptr, input, in_fail,
                   output, loops, anchor>>

IncrPtr ==
    /\ Fetch("INCR_PTR")
    /\ m_ptr + 1 <= BF_PTR_SIZE - 1 + MaxOob
    /\ m_ptr' = m_ptr + 1
    /\ UNCHANGED <<src, stdin, m_insts, m_tape, input, in_fail, output, pc, loops,
                   anchor>>

DecrPtr ==
    /\ Fetch("DECR_PTR")
    /\ m_ptr - 1 >= 0 - MaxOob
    /\ m_ptr' = m_ptr - 1
    /\ UNCHANGED <<src, stdin, m_insts, m_tape, input, in_fail, output, pc, loops,
                   anchor>>

\* Mutant of IncrByte: the cell saturates at its largest value.
IncrByteSaturating ==
    /\ Fetch("INCR_BYTE")
    /\ \E c \in ReadCell(m_tape, m_ptr) :
       \E w \in WriteCell(m_tape, m_ptr,
                           IF c.val = ByteMod - 1 THEN c.val ELSE c.val + 1) :
        /\ m_tape' = IF c.ok THEN w.tape ELSE m_tape
        /\ pc' = IF c.ok /\ w.ok THEN "run" ELSE "ub"
    /\ UNCHANGED <<src, stdin, m_insts, m_ptr, input, in_fail, output, loops,
                   anchor>>

IncrByte ==
    /\ Fetch("INCR_BYTE")
    /\ \E c \in ReadCell(m_tape, m_ptr) :
       \E w \in WriteCell(m_tape, m_ptr, (c.val + 1) % ByteMod) :
        /\ m_tape' = IF c.ok THEN w.tape ELSE m_tape
        /\ pc' = IF c.ok /\ w.ok THEN "run" ELSE "ub"
    /\ UNCHANGED <<src, stdin, m_insts, m_ptr, input, in_fail, output, loops, anchor>>

DecrByte ==
    /\ Fetch("DECR_BYTE")
    /\ \E c \in ReadCell(m_tape, m_ptr) :
       \E w \in WriteCell(m_tape, m_ptr, (c.val + ByteMod - 1) % ByteMod) :
        /\ m_tape' = IF c.ok THEN w.tape ELSE m_tape
        /\ pc' = IF c.ok /\ w.ok THEN "run" ELSE "ub"
    /\ UNCHANGED <<src, stdin, m_insts, m_ptr, input, in_fail, output, loops, anchor>>

OutByte ==
    /\ Fetch("OUT_BYTE")
    /\ Len(output) < MaxOut
    /\ \E c \in ReadCell(m_tape, m_ptr) :
        /\ output' = IF c.ok THEN Append(output, c.val) ELSE output
        /\ pc' = IF c.ok THEN "run" ELSE "ub"
    /\ UNCHANGED <<src, stdin, m_insts, m_tape, m_ptr, input, in_fail, loops, anchor>>

ReadByte ==
    /\ Fetch("READ_BYTE")
    /\ LET x == Extract(input, in_fail) IN
        /\ input' = x.rest
        /\ in_fail' = x.fail
        /\ IF x.got
           THEN \E w \in WriteCell(m_tape, m_ptr, x.val) :
                    /\ m_tape' = w.tape
                    /\ pc' = IF w.ok THEN "run" ELSE "ub"
           ELSE UNCHANGED <<m_tape, pc>>
    /\ UNCHANGED <<src, stdin, m_insts, m_ptr, output, loops, anchor>>

\* case WHILE_BEGIN: skip_loop() when the cell is 0; its loop then starts with
\* loops = 1.
WhileBegin ==
    /\ Fetch("WHILE_BEGIN")
    /\ \E c \in ReadCell(m_tape, m_ptr) :
        /\ pc' = IF ~c.ok THEN "ub" ELSE IF c.val = 0 THEN "skip" ELSE "run"
        /\ loops' = IF c.ok /\ c.val = 0 THEN 1 ELSE loops
        /\ anchor' = IF c.ok /\ c.val = 0 THEN m_insts_iter' ELSE anchor
    /\ UNCHANGED <<src, stdin, m_insts, m_tape, m_ptr, input, in_fail, output>>

\* Mutant of WhileEnd: restart_loop() is called whatever the cell holds.
WhileEndAlways ==
    /\ Fetch("WHILE_END")
    /\ \E c \in ReadCell(m_tape, m_ptr) :
        /\ pc' = IF ~c.ok THEN "ub" ELSE "restart"
        /\ loops' = IF c.ok THEN 1 ELSE loops
        /\ anchor' = IF c.ok THEN m_insts_iter' ELSE anchor
    /\ UNCHANGED <<src, stdin, m_insts, m_tape, m_ptr, input, in_fail, output>>

\* case WHILE_END: restart_loop() when the cell is not 0.
WhileEnd ==
    /\ Fetch("WHILE_END")
    /\ \E c \in ReadCell(m_tape, m_ptr) :
        /\ pc' = IF ~c.ok THEN "ub" ELSE IF c.val # 0 THEN "restart" ELSE "run"
        /\ loops' = IF c.ok /\ c.val # 0 THEN 1 ELSE loops
        /\ anchor' = IF c.ok /\ c.val # 0 THEN m_insts_iter' ELSE anchor
    /\ UNCHANGED <<src, stdin, m_insts, m_tape, m_ptr, input, in_fail, output>>

Comment ==
    /\ Fetch("COMMENT")
    /\ UNCHANGED <<src, stdin, m_insts, m_tape, m_ptr, input, in_fail, output, pc,
                   loops, anchor>>

EndOfProgram ==
    /\ Fetch("END_OF_PROGRAM")
    /\ pc' = "done"
    /\ UNCHANGED <<src, stdin, m_insts, m_tape, m_ptr, input, in_fail, output, loops,
                   anchor>>

\* ------------------------------------------------------------- scans
\* Mutant of SkipStep: a scan that fetches the end-of-program marker ends
\* run().
SkipStepReturnsAtMarker ==
    /\ pc = "skip"
    /\ \E r \in next_inst(m_insts, m_insts_iter, beyond) :
        /\ m_insts_iter' = r.iter
        /\ beyond' = r.beyond
        /\ m_inst' = IF r.ok THEN r.inst ELSE m_inst
        /\ loops' = IF r.ok THEN SkipDepth(r.inst, loops) ELSE loops
        /\ loops' <= MaxDepth
        /\ pc' = IF ~r.ok THEN "ub"
                 ELSE IF r.inst = "END_OF_PROGRAM" THEN "done"
                 ELSE IF loops' > 0 THEN "skip" ELSE "run"
        /\ ev' = IF ~r.ok THEN "fault"
                 ELSE IF loops' <= 0 THEN "skipped" ELSE "scan"
    /\ UNCHANGED <<src, stdin, m_insts, m_tape, m_ptr, input, in_fail, output,
                   anchor>>

\* Mutant of SkipStep: an increment-cell passed over by the scan is executed.
SkipStepExecutes ==
    /\ pc = "skip"
    /\ \E r \in next_inst(m_insts, m_insts_iter, beyond) :
        /\ m_insts_iter' = r.iter
        /\ beyond' = r.beyond
        /\ m_inst' = IF r.ok THEN r.inst ELSE m_inst
        /\ loops' = IF r.ok THEN SkipDepth(r.inst, loops) ELSE loops
        /\ loops' <= MaxDepth
        /\ pc' = IF ~r.ok THEN "ub" ELSE IF loops' > 0 THEN "skip" ELSE "run"
        /\ ev' = IF ~r.ok THEN "fault"
                 ELSE IF loops' <= 0 THEN "skipped" ELSE "scan"
        /\ m_tape' = IF r.ok /\ r.inst = "INCR_BYTE" /\ InTape(m_ptr)
                     THEN SetCell(m_tape, m_ptr,
                                  (Cell(m_tape, m_ptr) + 1) % ByteMod)
                     ELSE m_tape
    /\ UNCHANGED <<src, stdin, m_insts, m_ptr, input, in_fail, output, anchor>>

\* One pass of skip_loop's while loop.
SkipStep ==
    /\ pc = "skip"
    /\ \E r \in next_inst(m_insts, m_insts_iter, beyond) :
        /\ m_insts_iter' = r.iter
        /\ beyond' = r.beyond
        /\ m_inst' = IF r.ok THEN r.inst ELSE m_inst
        /\ loops' = IF r.ok THEN SkipDepth(r.inst, loops) ELSE loops
        /\ loops' <= MaxDepth
        /\ pc' = IF ~r.ok THEN "ub" ELSE IF loops' > 0 THEN "skip" ELSE "run"
        /\ ev' = IF ~r.ok THEN "fault"
                 ELSE IF loops' <= 0 THEN "skipped" ELSE "scan"
    /\ UNCHANGED <<src, stdin, m_insts, m_tape, m_ptr, input, in_fail, output, anchor>>

\* Mutant of RestartStep: the scan ends one position before the loop-start it
\* found, so that the next forward fetch returns the loop-start.
RestartStepBeforeStart ==
    /\ pc = "restart"
    /\ \E r \in prev_inst(m_insts, m_insts_iter, beyond) :
        /\ beyond' = r.beyond
        /\ m_inst' = IF r.ok THEN r.inst ELSE m_inst
        /\ loops' = IF r.ok THEN RestartDepth(r.inst, loops) ELSE loops
        /\ loops' <= MaxDepth
        /\ m_insts_iter' = IF r.ok /\ loops' <= 0 THEN r.iter - 1 ELSE r.iter
        /\ pc' = IF ~r.ok THEN "ub" ELSE IF loops' > 0 THEN "restart" ELSE "run"
        /\ ev' = IF ~r.ok THEN "fault"
                 ELSE IF loops' <= 0 THEN "restarted" ELSE "scan"
    /\ UNCHANGED <<src, stdin, m_insts, m_tape, m_ptr, input, in_fail, output,
                   anchor>>

\* One pass of restart_loop's while loop.
RestartStep ==
    /\ pc = "restart"
    /\ \E r \in prev_inst(m_insts, m_insts_iter, beyond) :
        /\ m_insts_iter' = r.iter
        /\ beyond' = r.beyond
        /\ m_inst' = IF r.ok THEN r.inst ELSE m_inst
        /\ loops' = IF r.ok THEN RestartDepth(r.inst, loops) ELSE loops
        /\ loops' <= MaxDepth
        /\ pc' = IF ~r.ok THEN "ub" ELSE IF loops' > 0 THEN "restart" ELSE "run"
        /\ ev' = IF ~r.ok THEN "fault"
                 ELSE IF loops' <= 0 THEN "restarted" ELSE "scan"
    /\ UNCHANGED <<src, stdin, m_insts, m_tape, m_ptr, input, in_fail, output, anchor>>

Next ==
    \/ IncrPtr
    \/ DecrPtr
    \/ IncrByte
    \/ DecrByte
    \/ OutByte
    \/ ReadByte
    \/ WhileBegin
    \/ WhileEnd
    \/ Comment
    \/ EndOfProgram
    \/ FetchFault
    \/ SkipStep
    \/ RestartStep

Spec == Init /\ [][Next]_vars

\* run() is the only thread and each pass of its loops follows the last: a
\* step that can be taken is taken.
FairSpec == Spec /\ WF_vars(Next)

\* ------------------------------------------- the two scans, back to back
\* skip_loop() entered with the program cursor on a loop-start of the sequence
\* (m_inst == WHILE_BEGIN, loops = 1), on a fresh interpreter.
InitSym ==
    \E code \in ShortPrograms \cup NamedPrograms :
    \E x \in 1 .. Len(parse_insts(code).insts) :
        /\ parse_insts(code).insts[x] = "WHILE_BEGIN"
        /\ src = code
        /\ stdin = << >>
        /\ input = << >>
        /\ m_insts = parse_insts(code).insts
        /\ m_insts_iter = x
        /\ m_inst = "WHILE_BEGIN"
        /\ beyond = "unread"
        /\ m_tape = EmptyTape
        /\ m_ptr = 0
        /\ in_fail = FALSE
        /\ output = << >>
        /\ pc = "skip"
        /\ loops = 1
        /\ anchor = x
        /\ ev = "call"

\* restart_loop() entered right after skip_loop() has returned: its test of
\* m_inst, then loops = 1.
CallRestart ==
    /\ pc = "run"
    /\ ev = "skipped"
    /\ m_inst = "WHILE_END"
    /\ pc' = "restart"
    /\ loops' = 1
    /\ ev' = "call"
    /\ UNCHANGED <<src, stdin, m_insts, m_insts_iter, m_inst, beyond, m_tape,
                   m_ptr, input, in_fail, output, anchor>>

NextSym ==
    \/ SkipStep
    \/ CallRestart
    \/ RestartStep

SpecSym == InitSym /\ [][NextSym]_vars

\* ------------------------------------------------- bracket matching
\* The reference the scans are compared with: the pairing of loop-starts and
\* loop-ends under proper nesting, computed left to right with a stack.
\* The first loop-start or loop-end at or after position i (Len + 1: none).
NextBracket(insts, i) ==
    LET later == {k \in i .. Len(insts) :
                      insts[k] \in {"WHILE_BEGIN", "WHILE_END"}}
    IN  IF later = {} THEN Len(insts) + 1
        ELSE CHOOSE k \in later : \A j \in later : k <= j

RECURSIVE Pairing(_, _, _, _)
Pairing(insts, i, stack, acc) ==
    IF i > Len(insts)
    THEN [pairs |-> acc.pairs, unopened |-> acc.unopened,
          unclosed |-> {stack[k] : k \in 1 .. Len(stack)}]
    ELSE IF insts[i] = "WHILE_BEGIN"
    THEN Pairing(insts, NextBracket(insts, i + 1), <<i>> \o stack, acc)
    ELSE IF insts[i] = "WHILE_END"
    THEN IF stack = << >>
         THEN Pairing(insts, NextBracket(insts, i + 1), stack,
                      [acc EXCEPT !.unopened = @ \cup {i}])
         ELSE Pairing(insts, NextBracket(insts, i + 1), Tail(stack),
                      [acc EXCEPT !.pairs = @ \cup {<<Head(stack), i>>}])
    ELSE Pairing(insts, NextBracket(insts, i + 1), stack, acc)

Brackets(insts) ==
    Pairing(insts, NextBracket(insts, 1), << >>,
            [pairs |-> {}, unopened |-> {}])

WellFormed(insts) ==
    /\ Brackets(insts).unopened = {}
    /\ Brackets(insts).unclosed = {}

\* The loop-end matching the loop-start at o, and the converse (0: none).
MatchEnd(insts, o) ==
    LET cs == {pr[2] : pr \in {q \in Brackets(insts).pairs : q[1] = o}}
    IN  IF cs = {} THEN 0 ELSE CHOOSE c \in cs : TRUE

MatchBegin(insts, c) ==
    LET os == {pr[1] : pr \in {q \in Brackets(insts).pairs : q[2] = c}}
    IN  IF os = {} THEN 0 ELSE CHOOSE o \in os : TRUE

\* ------------------------------------------------------------ claims
\* Position p holds an entry of the instruction sequence.
InProgram(p) == p \in 1 .. Len(m_insts)

NoOpProgram == \A i \in 1 .. Len(src) : to_inst(src[i]) = "COMMENT"

\* C1: a program of no-op bytes only, the empty program included, makes run()
\* fetch no-ops and then the end-of-program marker and return: nothing is
\* written, no tape cell is changed, and nothing undefined happens.
C1_NoOpProgramReturnsClean ==
    NoOpProgram =>
        /\ pc \in {"run", "done"}
        /\ m_inst \in {"COMMENT", "END_OF_PROGRAM"}
        /\ (pc = "done") = (m_inst = "END_OF_PROGRAM")
        /\ output = << >>
        /\ m_tape = EmptyTape
        /\ m_ptr = 0

\* C2: the loaded sequence has one entry per source byte, the tag of that
\* byte, then the end-of-program marker and nothing else; the program cursor
\* starts one position before the first entry.
C2_OneEntryPerBytePlusMarker ==
    /\ Len(m_insts) = Len(src) + 1
    /\ \A i \in 1 .. Len(src) : m_insts[i] = to_inst(src[i])
    /\ m_insts[Len(src) + 1] = "END_OF_PROGRAM"
    /\ (ev = "none" => m_insts_iter = 0)

\* C3: a skip started at a loop-start that has no matching loop-end never
\* moves the program cursor past the end-of-program marker: the scan stops at
\* the marker and nothing undefined happens.
C3_UnmatchedSkipStopsAtMarker ==
    anchor \in Brackets(m_insts).unclosed =>
        /\ m_insts_iter <= Len(m_insts)
        /\ pc # "ub"

\* C4: in a well-formed program a skip ends with the program cursor on the
\* loop-end that matches the loop-start it began at, and the next instruction
\* fetched is the one right after that loop-end; [[]] on a zero cell executes
\* neither loop-start's body: the top-level loop fetches only the outer
\* loop-start and what follows the outer loop-end.
C4_SkipEndsOnMatchingEnd ==
    [][WellFormed(m_insts) =>
        /\ (ev' = "skipped" /\ InProgram(anchor')) =>
            /\ m_insts[anchor'] = "WHILE_BEGIN"
            /\ m_insts_iter' = MatchEnd(m_insts, anchor')
            /\ pc' = "run"
        /\ (ev = "skipped" /\ InProgram(anchor)) =>
            /\ ev' = "top"
            /\ m_insts_iter' = MatchEnd(m_insts, anchor) + 1
            /\ m_inst' = m_insts[MatchEnd(m_insts, anchor) + 1]
        /\ (src = ProgNest /\ ev' = "top") => m_insts_iter' \in {1, 5, 6}
        /\ (src = ProgNest /\ m_insts_iter' = 6) => pc' = "done"
      ]_vars

\* Witness of C4: a skip over a loop that contains another loop has ended.
C4_Witness ==
    /\ ev = "skipped"
    /\ WellFormed(m_insts)
    /\ \E i \in (anchor + 1) .. (m_insts_iter - 1) : m_insts[i] = "WHILE_BEGIN"

\* C5: in a well-formed program a loop-end fetched on a non-zero cell makes
\* the restart end on the matching loop-start, and the top-level loop then
\* executes the instruction right after that loop-start; a loop-end fetched
\* on a zero cell jumps nowhere and the instruction after it is executed next.
C5_RestartResumesAfterMatchingBegin ==
    [][WellFormed(m_insts) =>
        /\ (ev' = "restarted" /\ InProgram(anchor')) =>
            /\ m_insts[anchor'] = "WHILE_END"
            /\ m_insts_iter' = MatchBegin(m_insts, anchor')
            /\ pc' = "run"
        /\ (ev = "restarted" /\ InProgram(anchor)) =>
            /\ ev' = "top"
            /\ m_inst' = m_insts[MatchBegin(m_insts, anchor) + 1]
            /\ m_insts_iter' = MatchBegin(m_insts, anchor) + 1
        /\ (ev = "top" /\ m_inst = "WHILE_END" /\ pc = "run"
                /\ InProgram(m_insts_iter)) =>
            /\ ev' = "top"
            /\ m_insts_iter' = m_insts_iter + 1
            /\ m_inst' = m_insts[m_insts_iter + 1]
      ]_vars

\* Witness of C5: a restart over a loop that contains another loop has ended.
C5_Witness ==
    /\ ev = "restarted"
    /\ WellFormed(m_insts)
    /\ \E i \in (m_insts_iter + 1) .. (anchor - 1) : m_insts[i] = "WHILE_END"

\* Witness of the second case of C5: a loop-end was fetched on a zero cell.
C5_WitnessNotTaken ==
    /\ ev = "top"
    /\ m_inst = "WHILE_END"
    /\ pc = "run"
    /\ WellFormed(m_insts)

\* C6 as stated: after a restart the next forward fetch returns the matching
\* loop-start itself, whose guard is evaluated again.
C6_NextFetchIsTheLoopStart ==
    [][(WellFormed(m_insts) /\ ev = "restarted" /\ InProgram(anchor)) =>
        /\ m_inst' = "WHILE_BEGIN"
        /\ m_insts_iter' = MatchBegin(m_insts, anchor)
      ]_vars

\* C6 as amended: after a restart the program cursor is on the matching
\* loop-start, which is the instruction fetched last, so the next forward fetch
\* moves past it without evaluating its guard; the top-level loop fetches a
\* loop-start only by stepping forward from the position before it.
C6_RestartLeavesCursorOnLoopStart ==
    [][WellFormed(m_insts) =>
        /\ (ev = "restarted" /\ InProgram(anchor)) =>
            /\ m_inst = "WHILE_BEGIN"
            /\ m_insts_iter = MatchBegin(m_insts, anchor)
            /\ m_insts_iter' = m_insts_iter + 1
        /\ (ev' = "top" /\ m_inst' = "WHILE_BEGIN"
                /\ InProgram(m_insts_iter')) =>
            /\ m_insts_iter' = m_insts_iter + 1
            /\ pc = "run"
      ]_vars

\* Witness of C6: a restart has just ended on a loop-start.
C6_Witness ==
    /\ ev = "restarted"
    /\ WellFormed(m_insts)
    /\ m_inst = "WHILE_BEGIN"
    /\ Cell(m_tape, m_ptr) # 0

\* C7: in a well-formed program, the skip from a loop-start followed at once
\* by the restart from the loop-end the skip stopped on brings the program
\* cursor back to that loop-start's own position, with the loop-start as the
\* instruction fetched last.
C7_SkipThenRestartReturnsToStart ==
    (WellFormed(m_insts) /\ ev = "restarted") =>
        /\ m_insts_iter = anchor
        /\ m_inst = "WHILE_BEGIN"
        /\ pc = "run"

\* Witness of C7: the round trip over a loop that contains another loop and is
\* itself inside a loop has ended.
C7_Witness ==
    /\ WellFormed(m_insts)
    /\ ev = "restarted"
    /\ \E i \in (anchor + 1) .. Len(m_insts) : m_insts[i] = "WHILE_BEGIN"
    /\ \E i \in 1 .. (anchor - 1) : m_insts[i] = "WHILE_BEGIN"
    /\ m_insts[anchor + 1] = "WHILE_BEGIN"

\* C8: run() returns only by a fetch of the end-of-program marker made by the
\* top-level loop, it returns at every such fetch, and a scan that fetches the
\* marker does not end run().
C8_ReturnsExactlyAtTopLevelMarker ==
    [][/\ (pc # "done" /\ pc' = "done") =>
            (pc = "run" /\ ev' = "top" /\ m_inst' = "END_OF_PROGRAM")
       /\ (pc = "run" /\ ev' = "top" /\ m_inst' = "END_OF_PROGRAM") =>
            pc' = "done"
       /\ (pc \in {"skip", "restart"} /\ m_inst' = "END_OF_PROGRAM") =>
            pc' # "done"
       /\ pc = "done" => pc' = "done"
      ]_vars

\* Witness of C8: a scan has fetched the marker of the sequence and run() goes
\* on.
C8_Witness ==
    /\ pc = "skip"
    /\ ev = "scan"
    /\ InProgram(m_insts_iter)
    /\ m_inst = "END_OF_PROGRAM"

\* The byte the first input-cell instruction stores, 0 when it stores none.
FirstByte ==
    IF Extract(stdin, FALSE).got THEN Extract(stdin, FALSE).val ELSE 0

\* C9: the loop [>+<-] entered with n in the guard cell runs its body n times
\* (each pass adds one to cell 1) and run() then goes on to return: ,[>+<-]
\* ends with tape[1] = the byte read and tape[0] = 0, and +[>+<-] ends with
\* tape[0] = 0 and tape[1] = 1.
C9_CountedLoopRunsGuardTimes ==
    (src \in {ProgCount, ProgOnce} /\ ev = "none") ~>
        /\ pc = "done"
        /\ m_ptr = 0
        /\ Cell(m_tape, 0) = 0
        /\ Cell(m_tape, 1) = IF src = ProgOnce THEN 1 ELSE FirstByte
        /\ DOMAIN m_tape \subseteq {1}

\* Witness of C9: the counted loop has ended after 200 passes.
C9_Witness ==
    /\ src = ProgCount
    /\ pc = "done"
    /\ Cell(m_tape, 1) = 200

\* C10: ++++++++[>++++++++<-]>+. with no input returns with the one byte 65
\* written, tape[0] = 0, tape[1] = 65 and the tape cursor on cell 1.
C10_ProgramAPrints65 ==
    (src = ProgA /\ ev = "none") ~>
        /\ pc = "done"
        /\ output = <<65>>
        /\ m_ptr = 1
        /\ Cell(m_tape, 0) = 0
        /\ Cell(m_tape, 1) = 65
        /\ DOMAIN m_tape = {1}

\* Witness of C10: the program has returned.
C10_Witness ==
    /\ src = ProgA
    /\ pc = "done"
    /\ output # << >>

\* C11: an executed input-cell instruction consumes exactly one byte of the
\* input stream, the next one, and stores it in tape[cursor]; the echo program
\* ,. run on the one byte b writes exactly b, whatever b is.
C11_InputConsumesOneByte ==
    [][/\ (ev' = "top" /\ m_inst' = "READ_BYTE" /\ input # << >>
            /\ InProgram(m_insts_iter') /\ InTape(m_ptr)) =>
            /\ input' = Tail(input)
            /\ Cell(m_tape', m_ptr) = Head(input)
       /\ (src = ProgEcho /\ Len(stdin) = 1 /\ pc' = "done") =>
            output' = stdin
      ]_vars

\* C12: increment-cell and decrement-cell work modulo 256: 255 + 1 is 0 and
\* 0 - 1 is 255; 256 increments, or 256 decrements, of a cell that holds any
\* byte v leave v in it; every cell holds a value of 0..255.
C12_CellArithmeticWraps ==
    [][/\ \A q \in DOMAIN m_tape' : m_tape'[q] \in Bytes
       /\ (ev' = "top" /\ m_inst' = "INCR_BYTE" /\ InTape(m_ptr)) =>
            Cell(m_tape', m_ptr) =
                IF Cell(m_tape, m_ptr) = 255 THEN 0 ELSE Cell(m_tape, m_ptr) + 1
       /\ (ev' = "top" /\ m_inst' = "DECR_BYTE" /\ InTape(m_ptr)) =>
            Cell(m_tape', m_ptr) =
                IF Cell(m_tape, m_ptr) = 0 THEN 255 ELSE Cell(m_tape, m_ptr) - 1
       /\ (src \in {ProgInc256, ProgDec256} /\ pc' = "done") =>
            Cell(m_tape', 0) = FirstByte
      ]_vars

\* Witness of C12: the 256 increments of a cell that held 200 are done and an
\* increment has just wrapped; the same for the decrements.
C12_Witness ==
    /\ src = ProgInc256
    /\ FirstByte = 200
    /\ pc = "done"
    /\ Cell(m_tape, 0) = 200

C12_WitnessWrap ==
    /\ ev = "top"
    /\ m_inst = "DECR_BYTE"
    /\ InTape(m_ptr)
    /\ Cell(m_tape, m_ptr) = 255
    /\ src = ProgDec256
    /\ FirstByte = 200

\* C13: the tape cursor always indexes a cell of the tape, 0..29999, and no
\* instruction accesses a cell outside it: a move-left at cell 0 and a
\* move-right at cell 29999 leave the cursor inside the tape (the model has no
\* state of a diagnosed out-of-range error, the code having none).  Stated of
\* the runs in which the program cursor has stayed inside the sequence.
C13_CursorStaysInTape ==
    (beyond = "unread" /\ ev # "fault") =>
        /\ InTape(m_ptr)
        /\ pc # "ub"

\* C14: a restart begun at a loop-end that has no matching loop-start never
\* moves the program cursor before the first entry and never reads outside the
\* sequence: each pass moves the cursor back by one and reads the entry there,
\* or, with the cursor on the first entry, leaves it there and reads it again.
C14_UnmatchedRestartClampsAtFirst ==
    [][(pc = "restart" /\ anchor \in Brackets(m_insts).unopened) =>
        /\ m_insts_iter' >= 1
        /\ ev' # "fault"
        /\ m_inst' = m_insts[m_insts_iter']
        /\ IF m_insts_iter = 1
           THEN m_insts_iter' = 1
           ELSE m_insts_iter' = m_insts_iter - 1
      ]_vars

\* Witness of C14: such a restart has reached the first entry and read it
\* again.
C14_Witness ==
    /\ pc = "restart"
    /\ anchor \in Brackets(m_insts).unopened
    /\ m_insts_iter = 1
    /\ m_insts[1] = "WHILE_END"
    /\ loops >= 3

\* The instructions that store to the tape.
Stores == {"INCR_BYTE", "DECR_BYTE", "READ_BYTE"}

\* C15: while nothing undefined has happened, a step changes no tape cell
\* other than tape[cursor], and it changes the tape only when it is the
\* top-level execution of increment-cell, decrement-cell or input-cell.
C15_TapeChangesOnlyAtCursor ==
    [][pc' # "ub" =>
        /\ (\A q \in (DOMAIN m_tape \cup DOMAIN m_tape') \ {m_ptr} :
                Cell(m_tape', q) = Cell(m_tape, q))
        /\ (m_tape' # m_tape) =>
            (pc = "run" /\ ev' = "top" /\ m_inst' \in Stores /\ m_ptr' = m_ptr)
      ]_vars

\* Witness of C15: a store has just changed the cell at the cursor while
\* another cell holds a byte that is not 0.
C15_Witness ==
    /\ ev = "top"
    /\ m_inst \in Stores
    /\ pc = "run"
    /\ m_ptr \in DOMAIN m_tape
    /\ DOMAIN m_tape # {m_ptr}

\* C16: a pass of skip_loop or restart_loop changes nothing but the program
\* cursor and the instruction fetched last (and the scan's own counter): the
\* tape, the tape cursor, the input still to be read and the output written
\* are what they were, whatever instruction the pass fetched.
C16_ScansExecuteNothing ==
    [][(pc \in {"skip", "restart"}) =>
        /\ m_tape' = m_tape
        /\ m_ptr' = m_ptr
        /\ input' = input
        /\ in_fail' = in_fail
        /\ output' = output
        /\ m_insts' = m_insts
      ]_vars

\* Witness of C16: a skip has ended after passing over instructions that move
\* the cursor, change a cell, read and write.
C16_Witness ==
    /\ ev = "skipped"
    /\ InProgram(anchor)
    /\ \E i \in (anchor + 1) .. (m_insts_iter - 1) :
        m_insts[i] \in {"INCR_BYTE", "DECR_BYTE"}
    /\ \E i \in (anchor + 1) .. (m_insts_iter - 1) :
        m_insts[i] \in {"INCR_PTR", "DECR_PTR", "OUT_BYTE", "READ_BYTE"}

\* Witness of C16 for the backward scan: a restart has ended after passing
\* over instructions that change a cell and move the cursor.
C16_WitnessRestart ==
    /\ ev = "restarted"
    /\ InProgram(anchor)
    /\ \E i \in (m_insts_iter + 1) .. (anchor - 1) : m_insts[i] = "INCR_BYTE"
    /\ \E i \in (m_insts_iter + 1) .. (anchor - 1) : m_insts[i] = "INCR_PTR"

\* C17: the program cursor starts one position before the first entry; every
\* fetch of the top-level loop and of skip_loop moves it forward by exactly
\* one position; it moves backward only in a pass of restart_loop.
C17_CursorAdvancesByOne ==
    [][/\ ev = "none" => m_insts_iter = 0
       /\ (pc \in {"run", "skip"}) => m_insts_iter' = m_insts_iter + 1
       /\ (m_insts_iter' < m_insts_iter) => pc = "restart"
      ]_vars

\* C18: in a well-formed program that is not empty the program cursor stays
\* between one before the first entry and the end-of-program marker, no fetch
\* reads outside the sequence, and a scan's counter is at least 1 while the scan
\* runs and 0 once it has stopped.
C18_WellFormedRunsStayInside ==
    (WellFormed(m_insts) /\ src # << >>) =>
        /\ m_insts_iter \in 0 .. Len(m_insts)
        /\ m_insts[Len(m_insts)] = "END_OF_PROGRAM"
        /\ beyond = "unread"
        /\ ev # "fault"
        /\ (ev # "none" => m_insts_iter >= 1 /\ m_inst = m_insts[m_insts_iter])
        /\ (pc \in {"skip", "restart"} => loops \in 1 .. MaxDepth)
        /\ (pc \in {"run", "done"} => loops = 0)
        /\ (pc = "skip" => m_insts_iter < Len(m_insts))
        /\ (pc = "restart" => m_insts_iter > 1)

\* Witness of C18: a scan inside a nested loop of a well-formed program is
\* two levels deep.
C18_Witness ==
    /\ WellFormed(m_insts)
    /\ src # << >>
    /\ pc = "restart"
    /\ loops = 2

\* C19: an input-cell instruction executed when the input stream has nothing
\* left to give (it is at its end, holds only whitespace, or has failed
\* before) changes neither the tape nor the tape cursor nor the output, and
\* run() goes on to fetch the next instruction.
C19_ExhaustedInputLeavesCell ==
    [][(ev' = "top" /\ m_inst' = "READ_BYTE" /\ SkipWs(input) = << >>) =>
        /\ m_tape' = m_tape
        /\ m_ptr' = m_ptr
        /\ output' = output
        /\ in_fail'
        /\ pc' = "run"
        /\ m_insts_iter' = NextPos(m_insts, m_insts_iter)
      ]_vars

\* Witness of C19: an input-cell instruction has just been executed on the
\* exhausted stream with a byte that is not 0 in the cell.
C19_Witness ==
    /\ ev = "top"
    /\ m_inst = "READ_BYTE"
    /\ InProgram(m_insts_iter)
    /\ stdin = << >>
    /\ in_fail
    /\ Cell(m_tape, m_ptr) # 0

============================================================================
